---- MODULE Spec2Model ----
(***************************************************************************)
(* Model of tools/ci/python_packages/ttfw_idf/__init__.py: the three test  *)
(* registration decorators wrapped by ci_target_check, and the performance *)
(* threshold checker check_performance.                                    *)
(*                                                                         *)
(* Python strings are sequences of one-character strings, so that set(s)   *)
(* of a string (its set of characters) and str.upper() are computed as     *)
(* Python computes them.  Every Python value is a record of one shape:     *)
(* kind, s (string payload), l (list-of-strings payload), n (number).      *)
(***************************************************************************)
EXTENDS Integers, Sequences, FiniteSets, TLC

\* ---- bounds ----
MaxListLen == 2
MaxApply == 1
MaxValue == 2
MaxLines == 1

\* ---- Python values ----
PyVal(kind, s, l, n) == [kind |-> kind, s |-> s, l |-> l, n |-> n]
Absent == PyVal("absent", <<>>, <<>>, 0)
None == PyVal("none", <<>>, <<>>, 0)
Str(s) == PyVal("str", s, <<>>, 0)
List(l) == PyVal("list", <<>>, l, 0)
Obj(name) == PyVal("obj", <<name>>, <<>>, 0)
IntVal(n) == PyVal("int", <<>>, <<>>, n)
BoolVal(b) == PyVal("bool", <<>>, <<>>, IF b THEN 1 ELSE 0)

esp32 == <<"e", "s", "p", "3", "2">>
ESP32 == <<"E", "S", "P", "3", "2">>
ESP32S2 == <<"E", "S", "P", "3", "2", "S", "2">>
Chips == {esp32, ESP32, ESP32S2}

\* str.upper() on one character
UpperChar(c) ==
  CASE c = "e" -> "E"
    [] c = "s" -> "S"
    [] c = "p" -> "P"
    [] c = "x" -> "X"
    [] OTHER -> c

\* str.upper()
StrUpper(s) == [i \in DOMAIN s |-> UpperChar(s[i])]

\* Python truthiness of None, a string or a list
Truthy(v) ==
  CASE v.kind = "none" -> FALSE
    [] v.kind = "str" -> v.s # <<>>
    [] v.kind = "list" -> v.l # <<>>
    [] OTHER -> TRUE

upper_list(text) ==
  IF ~Truthy(text) THEN text
  ELSE IF text.kind = "str" THEN Str(StrUpper(text.s))
  ELSE List([i \in DOMAIN text.l |-> StrUpper(text.l[i])])

\* set(x) is defined for strings (the set of their characters) and lists
Iterable(v) == v.kind \in {"str", "list"}

PySet(v) ==
  IF v.kind = "str" THEN {<<v.s[i]>> : i \in DOMAIN v.s}
  ELSE {v.l[i] : i \in DOMAIN v.l}

\* str(x) as "{}".format(x) renders it
RECURSIVE ReprItems(_)
ReprItems(l) ==
  IF l = <<>> THEN <<>>
  ELSE <<"'">> \o Head(l) \o <<"'">>
       \o (IF Tail(l) = <<>> THEN <<>> ELSE <<",", " ">>)
       \o ReprItems(Tail(l))

PyFormat(v) ==
  CASE v.kind = "str" -> v.s
    [] v.kind = "list" -> <<"[">> \o ReprItems(v.l) \o <<"]">>
    [] v.kind = "none" -> <<"N", "o", "n", "e">>
    [] OTHER -> v.s

format_case_id(chip, case_name) == PyFormat(chip) \o <<".">> \o case_name

\* ---- keyword arguments ----
KwKeys == {"app", "target", "ci_target", "module", "execution_time", "level",
           "erase_nvs", "config_name", "group", "foo"}

NoKw == [k \in KwKeys |-> Absent]

\* kwargs.get(key, default)
KwGet(kw, key, default) == IF kw[key] = Absent THEN default ELSE kw[key]

\* ---- ci_target_check.wrapper ----
IsSubset(ci_target, target) == PySet(ci_target) \subseteq PySet(target)

\* variant: the wrapper forwards the normalized target instead of the original
wrapper_normalizing(kw) ==
  LET target == upper_list(KwGet(kw, "target", List(<<>>)))
      ci_target == upper_list(KwGet(kw, "ci_target", List(<<>>)))
  IN IF ~Iterable(ci_target) \/ ~Iterable(target)
       THEN [exc |-> "TypeError", called |-> FALSE, fwd |-> NoKw]
     ELSE IF ~IsSubset(ci_target, target)
       THEN [exc |-> "ValueError", called |-> FALSE, fwd |-> NoKw]
     ELSE [exc |-> "none", called |-> TRUE,
           fwd |-> [kw EXCEPT !.target = IF @ = Absent THEN @ ELSE target]]

wrapper(kw) ==
  LET target == upper_list(KwGet(kw, "target", List(<<>>)))
      ci_target == upper_list(KwGet(kw, "ci_target", List(<<>>)))
  IN IF ~Iterable(ci_target) \/ ~Iterable(target)
       THEN [exc |-> "TypeError", called |-> FALSE, fwd |-> NoKw]
     ELSE IF ~IsSubset(ci_target, target)
       THEN [exc |-> "ValueError", called |-> FALSE, fwd |-> NoKw]
     ELSE [exc |-> "none", called |-> TRUE, fwd |-> kw]

\* ---- the three entry points: signatures ----
Decorators == {"idf_example_test", "idf_unit_test", "idf_custom_test"}

\* variant: all three entry points declare config_name
NamedParams_uniform(dec) ==
  CASE dec = "idf_example_test" ->
         {"app", "target", "ci_target", "module", "execution_time", "level",
          "erase_nvs", "config_name"}
    [] dec = "idf_unit_test" ->
         {"app", "target", "ci_target", "module", "execution_time", "level",
          "erase_nvs", "config_name"}
    [] dec = "idf_custom_test" ->
         {"app", "target", "ci_target", "module", "execution_time", "level",
          "erase_nvs", "config_name", "group"}

NamedParams(dec) ==
  CASE dec = "idf_example_test" ->
         {"app", "target", "ci_target", "module", "execution_time", "level",
          "erase_nvs", "config_name"}
    [] dec = "idf_unit_test" ->
         {"app", "target", "ci_target", "module", "execution_time", "level",
          "erase_nvs"}
    [] dec = "idf_custom_test" ->
         {"app", "target", "ci_target", "module", "execution_time", "level",
          "erase_nvs", "config_name", "group"}

Defaults(dec) ==
  CASE dec = "idf_example_test" ->
         [app |-> Obj("Example"), target |-> Str(ESP32), ci_target |-> None,
          module |-> Str(<<"examples">>), execution_time |-> IntVal(1),
          level |-> Str(<<"example">>), erase_nvs |-> BoolVal(TRUE),
          config_name |-> None, group |-> Absent, foo |-> Absent]
    [] dec = "idf_unit_test" ->
         [app |-> Obj("UT"), target |-> Str(ESP32), ci_target |-> None,
          module |-> Str(<<"unit-test">>), execution_time |-> IntVal(1),
          level |-> Str(<<"unit">>), erase_nvs |-> BoolVal(TRUE),
          config_name |-> Absent, group |-> Absent, foo |-> Absent]
    [] dec = "idf_custom_test" ->
         [app |-> Obj("TestApp"), target |-> Str(ESP32), ci_target |-> None,
          module |-> Str(<<"misc">>), execution_time |-> IntVal(1),
          level |-> Str(<<"integration">>), erase_nvs |-> BoolVal(TRUE),
          config_name |-> None, group |-> Str(<<"test-apps">>), foo |-> Absent]

\* value bound to a named parameter of the entry point
Param(dec, kw, key) == KwGet(kw, key, Defaults(dec)[key])

\* what lands in the entry point's **kwargs
Extra(dec, kw, key) == IF key \in NamedParams(dec) THEN Absent ELSE kw[key]

\* ---- inputs ----
StrInputs == {Str(c) : c \in Chips}
\* lists of distinct chip names (esp32 and ESP32 are distinct before upper())
ListInputs ==
  {List(l) : l \in UNION {{f \in [1..n -> Chips] :
                              \A i, j \in 1..n : i # j => f[i] # f[j]} :
                           n \in 0..MaxListLen}}
TargetInputs == {Absent} \cup StrInputs \cup ListInputs
CiTargetInputs == {Absent, None} \cup StrInputs \cup ListInputs

\* the caller either leaves app, module, execution_time, level and erase_nvs
\* to the defaults or passes all five
SharedInputs ==
  {[app |-> Absent, module |-> Absent, execution_time |-> Absent,
    level |-> Absent, erase_nvs |-> Absent],
   [app |-> Obj("MyApp"), module |-> Str(<<"mymodule">>),
    execution_time |-> IntVal(2), level |-> Str(<<"mylevel">>),
    erase_nvs |-> BoolVal(FALSE)]}

KwInputs ==
  {[app |-> sh.app, target |-> t, ci_target |-> c, module |-> sh.module,
    execution_time |-> sh.execution_time, level |-> sh.level,
    erase_nvs |-> sh.erase_nvs, config_name |-> cfg, group |-> g, foo |-> f] :
     sh \in SharedInputs, t \in TargetInputs, c \in CiTargetInputs,
     cfg \in {Absent, Str(<<"cfg">>)}, g \in {Absent, Str(<<"grp">>)},
     f \in {Absent, IntVal(7)}}

FuncNames == {<<"t", "a">>, <<"t", "b">>}

\* ---- state ----
VARIABLES
  r_pc,                 \* "idle", "raised", "ready", "registered", "wrapped"
  decorator,            \* the entry point that was called
  callKw,               \* keyword arguments the caller passed
  entryKw,              \* keyword arguments the entry point received
  r_exc,                \* exception raised by the factory call
  TARGET_DUT_CLS_DICT,  \* process-wide chip -> DUT class mapping
  fwCalls,              \* metadata of each TinyFW.test_method call, in order
  func,                 \* name of the user function being decorated
  test_func,            \* case_info of the function produced by the framework
  returned,             \* case_info of the functions returned by test(func)
  p_pc,                 \* "idle", "loop", "done", "raised"
  item, value_arg,      \* arguments item and value of check_performance
  value,                \* the local variable `value` of check_performance
  fs,                   \* the two threshold files that `target` selects
  idx,                  \* position of the for loop in performance_files
  p_exc, msg,           \* exception leaving check_performance, its message
  opened,               \* indexes of the files opened so far
  checked               \* arguments of the _check_perf call, if any

regVars == <<r_pc, decorator, callKw, entryKw, r_exc, TARGET_DUT_CLS_DICT,
             fwCalls, func, test_func, returned>>
perfVars == <<p_pc, item, value_arg, value, fs, idx, p_exc, msg,
              opened, checked>>
vars == <<regVars, perfVars>>

DutClsDict == (ESP32 :> "ESP32DUT") @@ (ESP32S2 :> "ESP32S2DUT")

NoCaseInfo == [name |-> <<>>, ID |-> Absent]

\* ---- TinyFW (framework) ----
\* keyword arguments of the TinyFW.test_method call made by test(func)
TestMethodKw(dec, kw, dut_dict) ==
  [app |-> Param(dec, kw, "app"),
   target |-> upper_list(Param(dec, kw, "target")),
   ci_target |-> upper_list(Param(dec, kw, "ci_target")),
   module |-> Param(dec, kw, "module"),
   execution_time |-> Param(dec, kw, "execution_time"),
   level |-> Param(dec, kw, "level"),
   dut_dict |-> dut_dict,
   erase_nvs |-> Param(dec, kw, "erase_nvs"),
   config_name |-> Extra(dec, kw, "config_name"),
   group |-> Extra(dec, kw, "group"),
   foo |-> Extra(dec, kw, "foo")]

\* the function returned by the framework's decorator carries case_info
\* with the case name
original_method(f) == [name |-> f, ID |-> Absent]

\* variant: the identifier is formatted from the normalized target
CaseId_normalized(dec, kw, name) ==
  format_case_id(upper_list(Param(dec, kw, "target")), name)

\* identifier written into case_info["ID"]
CaseId(dec, kw, name) == format_case_id(Param(dec, kw, "target"), name)

\* ---- registration actions ----
RegInit ==
  /\ r_pc = "idle"
  /\ decorator = "none"
  /\ callKw = NoKw
  /\ entryKw = NoKw
  /\ r_exc = "none"
  /\ TARGET_DUT_CLS_DICT = DutClsDict
  /\ fwCalls = <<>>
  /\ func = <<>>
  /\ test_func = NoCaseInfo
  /\ returned = <<>>

\* a decorated entry point is called: ci_target_check.wrapper runs, then the
\* entry point itself, which only builds the closure `test`
CallEntry(dec) ==
  /\ r_pc = "idle"
  /\ \E kw \in KwInputs :
       LET w == wrapper(kw)
       IN /\ decorator' = dec
          /\ callKw' = kw
          /\ entryKw' = w.fwd
          /\ r_exc' = w.exc
          /\ r_pc' = IF w.called THEN "ready" ELSE "raised"
  /\ UNCHANGED <<TARGET_DUT_CLS_DICT, fwCalls, func, test_func, returned>>
  /\ UNCHANGED perfVars

idf_example_test == CallEntry("idf_example_test")
idf_unit_test == CallEntry("idf_unit_test")
idf_custom_test == CallEntry("idf_custom_test")

\* test(func), first statement: TinyFW.test_method(...)
TestMethod ==
  /\ r_pc = "ready"
  /\ Len(returned) < MaxApply
  /\ \E f \in FuncNames : func' = f
  /\ fwCalls' = Append(fwCalls, TestMethodKw(decorator, entryKw, TARGET_DUT_CLS_DICT))
  /\ test_func' = NoCaseInfo
  /\ r_pc' = "registered"
  /\ UNCHANGED <<decorator, callKw, entryKw, r_exc, TARGET_DUT_CLS_DICT,
                 returned>>
  /\ UNCHANGED perfVars

\* test(func), second statement: test_func = original_method(func)
Wrap ==
  /\ r_pc = "registered"
  /\ test_func' = original_method(func)
  /\ r_pc' = "wrapped"
  /\ UNCHANGED <<decorator, callKw, entryKw, r_exc, TARGET_DUT_CLS_DICT,
                 fwCalls, func, returned>>
  /\ UNCHANGED perfVars

\* test(func), third statement and return: stamp case_info["ID"]
Stamp ==
  /\ r_pc = "wrapped"
  /\ LET stamped == [test_func EXCEPT
                       !.ID = Str(CaseId(decorator, entryKw, test_func.name))]
     IN /\ test_func' = stamped
        /\ returned' = Append(returned, stamped)
  /\ r_pc' = "ready"
  /\ UNCHANGED <<decorator, callKw, entryKw, r_exc, TARGET_DUT_CLS_DICT,
                 fwCalls, func>>
  /\ UNCHANGED perfVars

\* ---- check_performance ----
\* a "#define IDF_PERFORMANCE_<op>_<name> <number>" line; a number text such
\* as "1.2.3" matches [\d.]+ but is not a float (wf = FALSE)
MetricX == <<"X">>
MetricY == <<"Y">>
Items == {<<"x">>, <<"X">>}
Values == 0..MaxValue

DefineLines ==
  {[op |-> o, name |-> MetricX, wf |-> TRUE, n |-> t] :
     o \in {"MIN", "MAX"}, t \in Values}
  \cup {[op |-> o, name |-> MetricX, wf |-> FALSE, n |-> 0] : o \in {"MIN", "MAX"}}
  \cup {[op |-> "MAX", name |-> MetricY, wf |-> TRUE, n |-> 0]}

Missing == [exists |-> FALSE, lines |-> <<>>]
Files ==
  {Missing} \cup
  {[exists |-> TRUE, lines |-> l] :
     l \in UNION {[1..n -> DefineLines] : n \in 0..MaxLines}}

NoResult == [exc |-> "none", op |-> "none", value |-> 0]

\* position of the first line of the text the pattern matches, 0 if none
RECURSIVE Search(_, _, _)
Search(lines, name, i) ==
  IF i > Len(lines) THEN 0
  ELSE IF lines[i].name = name THEN i
  ELSE Search(lines, name, i + 1)

find_perf_item(file, it) ==
  IF ~file.exists THEN [NoResult EXCEPT !.exc = "IOError"]
  ELSE LET m == Search(file.lines, StrUpper(it), 1)
       IN IF m = 0 THEN [NoResult EXCEPT !.exc = "AttributeError"]
          ELSE IF ~file.lines[m].wf THEN [NoResult EXCEPT !.exc = "ValueError"]
          ELSE [exc |-> "none", op |-> file.lines[m].op, value |-> file.lines[m].n]

\* the comparison of _check_perf; val is the enclosing function's `value`
check_perf(op, standard_value, val) ==
  IF op = "MAX" THEN val <= standard_value ELSE val >= standard_value

\* variant: the except clause handles IOError only
Caught_IOErrorOnly == {"IOError"}

\* exceptions the loop's except clause handles
Caught == {"IOError", "AttributeError"}

performance_files == <<fs.target, fs.generic>>

NoCheck == [called |-> FALSE, op |-> "none", standard_value |-> 0]
NoMsg == [item |-> <<>>, value |-> 0, standard_value |-> 0]

PerfInit ==
  /\ p_pc = "idle"
  /\ item = <<>>
  /\ value_arg = 0
  /\ value = 0
  /\ fs = [target |-> Missing, generic |-> Missing]
  /\ idx = 1
  /\ p_exc = "none"
  /\ msg = NoMsg
  /\ opened = {}
  /\ checked = NoCheck

\* check_performance(item, value, target) is entered
check_performance ==
  /\ p_pc = "idle"
  /\ \E it \in Items, v \in Values, ft \in Files, fg \in Files :
       /\ item' = it
       /\ value_arg' = v
       /\ value' = v
       /\ fs' = [target |-> ft, generic |-> fg]
  /\ idx' = 1
  /\ p_pc' = "loop"
  /\ UNCHANGED <<p_exc, msg, opened, checked>>
  /\ UNCHANGED regVars

\* loop body: _find_perf_item raised IOError or AttributeError -> continue
LoopContinue ==
  /\ p_pc = "loop"
  /\ find_perf_item(performance_files[idx], item).exc \in Caught
  /\ opened' = opened \cup {idx}
  /\ idx' = idx + 1
  /\ p_pc' = IF idx = Len(performance_files) THEN "done" ELSE "loop"
  /\ UNCHANGED <<item, value_arg, value, fs, p_exc, msg, checked>>
  /\ UNCHANGED regVars

\* loop body: _find_perf_item raised an exception the loop does not handle
LoopPropagate ==
  /\ p_pc = "loop"
  /\ LET r == find_perf_item(performance_files[idx], item)
     IN /\ r.exc \notin Caught \cup {"none"}
        /\ p_exc' = r.exc
  /\ opened' = opened \cup {idx}
  /\ p_pc' = "raised"
  /\ UNCHANGED <<item, value_arg, value, fs, idx, msg, checked>>
  /\ UNCHANGED regVars

\* loop body: op, value = _find_perf_item(...); _check_perf(op, value); break
LoopCheck ==
  /\ p_pc = "loop"
  /\ LET r == find_perf_item(performance_files[idx], item)
     IN /\ r.exc = "none"
        /\ value' = r.value
        /\ checked' = [called |-> TRUE, op |-> r.op, standard_value |-> r.value]
        /\ IF check_perf(r.op, r.value, value')
             THEN /\ p_pc' = "done"
                  /\ UNCHANGED <<p_exc, msg>>
             ELSE /\ p_pc' = "raised"
                  /\ p_exc' = "AssertionError"
                  /\ msg' = [item |-> item, value |-> value',
                             standard_value |-> r.value]
  /\ opened' = opened \cup {idx}
  /\ UNCHANGED <<item, value_arg, fs, idx>>
  /\ UNCHANGED regVars

\* ---- specifications ----
Init == RegInit /\ PerfInit

Next ==
  \/ idf_example_test
  \/ idf_unit_test
  \/ idf_custom_test
  \/ TestMethod
  \/ Wrap
  \/ Stamp

Spec == Init /\ [][Next]_vars

NextPerf ==
  \/ check_performance
  \/ LoopContinue
  \/ LoopPropagate
  \/ LoopCheck

SpecPerf == Init /\ [][NextPerf]_vars

\* ---- properties of the registration entry points ----
\* a target or ci_target given as a single chip name or a list of chip names
Given(v) == v.kind \in {"str", "list"}

\* the set of chip names a given value denotes, uppercased
ChipSet(v) ==
  IF v.kind = "str" THEN {StrUpper(v.s)}
  ELSE {StrUpper(v.l[i]) : i \in DOMAIN v.l}

Called == r_pc # "idle"

\* C2: if the chip names of ci_target are contained in the chip names of
\* target (each a single name or a list), the call raises no error.
C2_SubsetAccepted ==
  (/\ Called
   /\ Given(callKw.target)
   /\ Given(callKw.ci_target)
   /\ ChipSet(callKw.ci_target) \subseteq ChipSet(callKw.target))
  => r_pc # "raised"

\* C3: if ci_target is non-empty and some chip name of it is not a chip name
\* of target, the call raises ValueError.
C3_NonSubsetRejected ==
  (/\ Called
   /\ Given(callKw.target)
   /\ Given(callKw.ci_target)
   /\ ChipSet(callKw.ci_target) # {}
   /\ ~(ChipSet(callKw.ci_target) \subseteq ChipSet(callKw.target)))
  => (r_pc = "raised" /\ r_exc = "ValueError")

\* C4: with ci_target omitted, or passed explicitly as None, the call raises
\* no error for any target.
C4_UnsetCiTargetAccepted ==
  (/\ Called
   /\ Given(callKw.target)
   /\ callKw.ci_target \in {Absent, None})
  => r_pc # "raised"

\* C5: with target omitted the validation uses the default target ESP32: the
\* call is rejected exactly when ci_target names a chip other than ESP32, and
\* an accepted case is registered for target ESP32.
C5_DefaultTargetValidated ==
  (/\ Called
   /\ callKw.target = Absent
   /\ Given(callKw.ci_target))
  => /\ (r_pc = "raised") <=> ~(ChipSet(callKw.ci_target) \subseteq {ESP32})
     /\ \A i \in DOMAIN fwCalls : fwCalls[i].target = Str(ESP32)

\* C8 as stated: for a single-chip target the stamped ID is the uppercased
\* target, a period, and the case name.
C8_IdUppercased ==
  callKw.target.kind = "str" =>
    \A i \in DOMAIN returned :
      returned[i].ID = Str(StrUpper(callKw.target.s) \o <<".">> \o returned[i].name)

\* C8 amended: for a single-chip target the stamped ID is the target exactly
\* as the caller passed it (letter case kept), a period, and the case name
\* the framework assigned.
C8_IdFromRawTarget ==
  callKw.target.kind = "str" =>
    \A i \in DOMAIN returned :
      /\ returned[i].name \in FuncNames
      /\ returned[i].ID = Str(callKw.target.s \o <<".">> \o returned[i].name)

C8_Witness ==
  /\ returned # <<>>
  /\ callKw.target = Str(esp32)
  /\ returned[1].ID = Str(<<"e", "s", "p", "3", "2", ".">> \o returned[1].name)

\* C9: validate, then delegate, then stamp.  A factory call that raised never
\* reached the entry point, made no TinyFW.test_method call and stamped
\* nothing; the chip-to-driver mapping never changes; an entry point that was
\* reached received exactly the caller's keyword arguments; every application
\* of test(func) calls TinyFW.test_method exactly once, before the ID is
\* written.
C9_ValidateDelegateStamp ==
  /\ TARGET_DUT_CLS_DICT = DutClsDict
  /\ r_pc = "raised" =>
       /\ r_exc # "none"
       /\ entryKw = NoKw
       /\ fwCalls = <<>>
       /\ returned = <<>>
       /\ test_func = NoCaseInfo
  /\ r_pc \in {"ready", "registered", "wrapped"} =>
       /\ r_exc = "none"
       /\ entryKw = callKw
  /\ r_pc = "idle" => (fwCalls = <<>> /\ returned = <<>>)
  /\ Len(fwCalls) =
       Len(returned) + (IF r_pc \in {"registered", "wrapped"} THEN 1 ELSE 0)
  /\ r_pc = "registered" => test_func = NoCaseInfo
  /\ r_pc = "wrapped" => (test_func.name = func /\ test_func.ID = Absent)
  /\ \A i \in DOMAIN returned : returned[i].ID # Absent

C9_Witness ==
  /\ r_pc = "ready"
  /\ Len(returned) = 1
  /\ Len(fwCalls) = 1
  /\ callKw.target = List(<<esp32, ESP32S2>>)
  /\ callKw.ci_target = List(<<ESP32S2>>)

SharedKeys == {"app", "target", "ci_target", "module", "execution_time",
               "level", "erase_nvs", "config_name"}

\* C10 as stated: called with the same explicit values for every shared input
\* and the same extra options, the three entry points pass the same metadata
\* to TinyFW.test_method and stamp the same ID.
C10_SameMetadata ==
  (\A k \in SharedKeys : callKw[k] # Absent) =>
    /\ \A i \in DOMAIN fwCalls : \A d \in Decorators :
         fwCalls[i] = TestMethodKw(d, callKw, DutClsDict)
    /\ \A i \in DOMAIN returned : \A d \in Decorators :
         returned[i].ID = Str(CaseId(d, callKw, returned[i].name))

\* C10 amended: called with the same explicit values for app, target,
\* ci_target, module, execution_time, level and erase_nvs and the same other
\* keywords, the three entry points pass the same metadata to
\* TinyFW.test_method except for config_name and group, and stamp the same ID:
\* config_name is forwarded only by idf_unit_test, group only by
\* idf_example_test and idf_unit_test, any other extra option by all three.
C10_SameMetadataButBoundKeywords ==
  (fwCalls # <<>> /\ \A k \in SharedKeys \ {"config_name"} : callKw[k] # Absent) =>
    /\ \A i \in DOMAIN fwCalls :
         /\ \A d \in Decorators :
              [fwCalls[i] EXCEPT !.config_name = Absent, !.group = Absent] =
                [TestMethodKw(d, callKw, DutClsDict)
                   EXCEPT !.config_name = Absent, !.group = Absent]
         /\ fwCalls[i].foo = callKw.foo
         /\ fwCalls[i].config_name =
              (IF decorator = "idf_unit_test" THEN callKw.config_name ELSE Absent)
         /\ fwCalls[i].group =
              (IF decorator = "idf_custom_test" THEN Absent ELSE callKw.group)
    /\ \A i \in DOMAIN returned : \A d \in Decorators :
         returned[i].ID = Str(CaseId(d, callKw, returned[i].name))

C10_Witness ==
  /\ decorator = "idf_unit_test"
  /\ \A k \in KwKeys : callKw[k] # Absent
  /\ Len(returned) = 1
  /\ fwCalls[1].config_name = Str(<<"cfg">>)
  /\ fwCalls[1].group = Str(<<"grp">>)
  /\ fwCalls[1].app = Obj("MyApp")

\* ---- properties of check_performance ----
Returned == p_pc \in {"done", "raised"}

Complies(op, v, t) == IF op = "MAX" THEN v <= t ELSE v >= t

\* the file defines the metric
Defines(file) ==
  file.exists /\ \E i \in DOMAIN file.lines : file.lines[i].name = StrUpper(item)

FirstDefinition(file) == file.lines[Search(file.lines, StrUpper(item), 1)]

\* C1: when a threshold (op, t) is resolved, the call returns normally iff
\* the caller's measured value complies, and otherwise raises AssertionError
\* carrying the metric name, the measured value and t.
C1_ThresholdEnforced ==
  (Returned /\ checked.called) =>
    IF Complies(checked.op, value_arg, checked.standard_value)
      THEN p_pc = "done"
      ELSE /\ p_pc = "raised"
           /\ p_exc = "AssertionError"
           /\ msg = [item |-> item, value |-> value_arg,
                     standard_value |-> checked.standard_value]

\* C6: the threshold resolved and enforced is the one of the first source, in
\* the order target-specific file, generic file, that is readable and defines
\* the metric; when the target-specific file defines it the generic file is
\* not consulted.
C6_FirstSourceEnforced ==
  (Returned /\ p_exc # "ValueError"
     /\ (Defines(fs.target) \/ Defines(fs.generic))) =>
    LET d == IF Defines(fs.target) THEN FirstDefinition(fs.target)
             ELSE FirstDefinition(fs.generic)
    IN /\ checked = [called |-> TRUE, op |-> d.op, standard_value |-> d.n]
       /\ Defines(fs.target) => 2 \notin opened
       /\ (p_pc = "done") <=> Complies(d.op, value_arg, d.n)

\* C7: if neither file yields a definition of the metric (each is missing or
\* lacks the metric), the call returns normally for every measured value and
\* no I/O failure reaches the caller.
C7_NoThresholdNoError ==
  (p_pc # "idle" /\ ~Defines(fs.target) /\ ~Defines(fs.generic)) =>
    /\ p_pc # "raised"
    /\ p_exc = "none"
    /\ ~checked.called
    /\ value = value_arg

C7_Witness ==
  /\ p_pc = "done"
  /\ ~fs.target.exists
  /\ fs.generic.exists
  /\ ~Defines(fs.generic)
  /\ value_arg = MaxValue
  /\ opened = {1, 2}

====
